---- MODULE Spec2Model ----
(***************************************************************************)
(* Model of WebApplication/App/views.py: the Predict view (construction,   *)
(* staging of the uploaded bytes under MEDIA_ROOT, feature extraction,     *)
(* forward pass, arg-max, label lookup, cleanup) and the part of           *)
(* FileView.upload that puts stored uploads into MEDIA_ROOT.               *)
(*                                                                         *)
(* Predict is a class-based view: the framework's as_view() builds a new   *)
(* Predict object for every request, so Predict.__init__ (and the          *)
(* load_model call in it) runs once per request.  Requests are served by   *)
(* concurrent workers that share MEDIA_ROOT.                               *)
(*                                                                         *)
(* The names APIView and load_model, which views.py uses without importing *)
(* them, are read as rest_framework.views.APIView and                      *)
(* keras.models.load_model.                                                *)
(***************************************************************************)
EXTENDS Integers, Sequences, FiniteSets, TLC

\* ------------------------------------------------------------- bounds
NumRequests == 2          \* Predict requests served in one behaviour
MaxStored == 1            \* uploads stored through FileView.upload
MaxScore == 2             \* scores of a score row range over 0..MaxScore
IndexSlack == 2           \* class indices tried: this far outside 0..OutputWidth-1

\* ------------------------------------------------- program constants
N_MFCC == 40              \* n_mfcc=40
OutputWidth == 8          \* classes of Emotion_Voice_Detection_Model.h5

Requests == 1..NumRequests
Names == {"a.wav", "b.wav"}

\* An upload is a sequence of chunks.  Chunk 1 stands for a decodable audio
\* header, chunks 2 and 3 for sample data, chunk 0 for bytes that are not
\* audio (also what a hole in a file reads as).
Header == 1
Uploads == {<<>>, <<0>>, <<Header>>, <<Header, 2>>, <<Header, 3>>}
NoUpload == <<-1>>        \* request.FILES.get('file', None) is None

Min(a, b) == IF a < b THEN a ELSE b
Max(a, b) == IF a > b THEN a ELSE b

RECURSIVE SeqSum(_)
SeqSum(s) == IF s = <<>> THEN 0 ELSE Head(s) + SeqSum(Tail(s))

\* ------------------------------------------------------ label lookup
label_map ==
    (0 :> "neutral") @@ (1 :> "calm") @@ (2 :> "happy") @@ (3 :> "sad") @@
    (4 :> "angry") @@ (5 :> "fearful") @@ (6 :> "disgust") @@ (7 :> "surprised")

\* Variant: the table read as if its keys started at 1.
classtoemotionOneBased(pred) ==
    IF (pred - 1) \in DOMAIN label_map THEN label_map[pred - 1] ELSE "unknown"

\* label_map.get(pred, 'unknown')
classtoemotion(pred) ==
    IF pred \in DOMAIN label_map THEN label_map[pred] ELSE "unknown"

\* --------------------------------------------------------- arg-max
\* np.argmax over one row: a left-to-right scan that keeps the first index
\* holding the largest score (a later score replaces it only when strictly
\* greater).  Indices are 0-based; preds is a function on 0..n-1.
RECURSIVE ArgmaxScan(_, _, _)
ArgmaxScan(preds, i, best) ==
    IF i \notin DOMAIN preds THEN best
    ELSE ArgmaxScan(preds, i + 1, IF preds[i] > preds[best] THEN i ELSE best)

\* Variant: a later equal score replaces the index (the last maximum wins).
RECURSIVE ArgmaxScanLast(_, _, _)
ArgmaxScanLast(preds, i, best) ==
    IF i \notin DOMAIN preds THEN best
    ELSE ArgmaxScanLast(preds, i + 1, IF preds[i] >= preds[best] THEN i ELSE best)

argmaxLast(preds) == ArgmaxScanLast(preds, 1, 0)

\* Variant: the position counted from 1.
argmaxOneBased(preds) == ArgmaxScan(preds, 1, 0) + 1

argmax(preds) == ArgmaxScan(preds, 1, 0)

\* ------------------------------------------------ feature extraction
\* librosa.load(tmp_path, sr=None) on the bytes of a file: the samples, or a
\* failure when the bytes are empty or do not start with an audio header.
Decode(data) ==
    IF data = <<>> \/ Head(data) # Header
    THEN [ok |-> FALSE, samples |-> <<>>]
    ELSE [ok |-> TRUE, samples |-> Tail(data)]

\* Shape of librosa.feature.mfcc(y, sr, n_mfcc=40): (40, frames).
MfccShape(samples) == <<N_MFCC, 1 + Len(samples)>>

\* Shape of m.T
Transpose(shape) == <<shape[2], shape[1]>>

\* Shape of np.mean(m, axis=0)
MeanAxis0(shape) == Tail(shape)

\* np.expand_dims(a, axis) on an array of the given shape.  An axis outside
\* -ndim-1..ndim is an AxisError since numpy 1.18; older releases warn and
\* insert the axis with Python's clamping slices.
expand_dims(shape, axis, legacy) ==
    LET n == Len(shape)
        ax == IF axis < 0 THEN axis + n + 1 ELSE axis
        cut == Max(0, Min(ax, n))
    IN IF (axis > n \/ axis < -n - 1) /\ ~legacy
       THEN [ok |-> FALSE, shape |-> <<>>]
       ELSE [ok |-> TRUE,
             shape |-> SubSeq(shape, 1, cut) \o <<1>> \o SubSeq(shape, cut + 1, n)]

\* ----------------------------------------------------- forward pass
\* The scores the loaded artifact gives to the mean coefficients of a sample
\* sequence: some fixed function of the input, one row of OutputWidth scores.
Forward(samples) ==
    [i \in 0..(OutputWidth - 1) |-> ((i + 1) * (SeqSum(samples) + 1)) % 5]

\* ------------------------------------------------------- responses
NoResponse == [status |-> 0, kind |-> "none", value |-> ""]
Response(kind, value, status) == [status |-> status, kind |-> kind, value |-> value]
\* An exception that leaves the view: the framework answers 500.
Crash(what) == Response("crash", what, 500)

\* Lines 238-240 and 248 of Predict.post on a score row.
Respond(preds) ==
    LET predicted_class == argmax(preds)
        emotion_label == classtoemotion(predicted_class)
    IN Response("prediction", emotion_label, 200)

\* The try block of Predict.post on the bytes found at tmp_path (present says
\* whether the path exists): what was decoded, the shape handed to
\* model.predict, and the response the try/except produces.
Pipeline(present, data, legacy) ==
    LET dec == Decode(data)
        mfccs == MeanAxis0(Transpose(MfccShape(dec.samples)))
        f1 == expand_dims(mfccs, 2, legacy)
        f2 == expand_dims(f1.shape, 0, legacy)
        Fail(v, msg) == [valid |-> v, features |-> <<>>,
                         resp |-> Response("error", msg, 400)]
    IN IF ~present THEN Fail(FALSE, "FileNotFoundError")
       ELSE IF ~dec.ok THEN Fail(FALSE, "DecodeError")
       ELSE IF dec.samples = <<>> THEN Fail(FALSE, "EmptySignal")
       ELSE IF ~f1.ok \/ ~f2.ok THEN Fail(TRUE, "AxisError")
       ELSE IF f2.shape # <<1, N_MFCC, 1>> THEN Fail(TRUE, "ValueError")
       ELSE [valid |-> TRUE, features |-> f2.shape, resp |-> Respond(Forward(dec.samples))]

\* ------------------------------------------------------------ state
VARIABLES
    artifactOk,   \* the file at MODEL_ROOT is a loadable model
    legacyNumpy,  \* the installed numpy predates 1.18
    loads,        \* executions of load_model so far
    media,        \* MEDIA_ROOT: name -> file
    stored,       \* uploads stored so far
    req,          \* the Predict requests
    scores,       \* a score row (application of the pure functions)
    index,        \* a class index
    answer        \* result of applying the pure functions

vars == <<artifactOk, legacyNumpy, loads, media, stored, req, scores, index, answer>>
pureVars == <<scores, index, answer>>
viewVars == <<artifactOk, legacyNumpy, loads, media, stored, req>>

Absent == [ino |-> 0, data |-> <<>>, origin |-> "absent"]
Present(n) == media[n].origin # "absent"

IdleRequest ==
    [pc |-> "idle", name |-> "a.wav", upload |-> NoUpload, first |-> FALSE,
     afterFailure |-> FALSE, ino |-> 0, off |-> 0, valid |-> FALSE,
     features |-> <<>>, resp |-> NoResponse]

InitView ==
    /\ artifactOk \in BOOLEAN
    /\ legacyNumpy \in BOOLEAN
    /\ loads = 0
    /\ media = [n \in Names |-> Absent]
    /\ stored = 0
    /\ req = [r \in Requests |-> IdleRequest]

InitPureIdle ==
    /\ scores = <<>>
    /\ index = 0
    /\ answer = NoResponse

Init == InitView /\ InitPureIdle

\* ---------------------------------------------------------- actions
\* A request reaches the Predict view with its multipart body: a file named n
\* with bytes b, or no file (the name is then unused).  Requests are numbered
\* in the order they arrive.
Arrive(r, n, b) ==
    /\ req[r].pc = "idle"
    /\ \A q \in Requests : q < r => req[q].pc # "idle"
    /\ b = NoUpload => n = IdleRequest.name
    /\ req' = [req EXCEPT ![r] =
           [@ EXCEPT !.pc = "init", !.name = n, !.upload = b,
                     !.first = (loads = 0),
                     !.afterFailure = \E q \in Requests :
                         /\ req[q].pc = "done"
                         /\ req[q].upload # NoUpload
                         /\ req[q].resp.kind = "error"]]
    /\ UNCHANGED <<artifactOk, legacyNumpy, loads, media, stored, pureVars>>

\* Predict.__init__: load the model artifact into this view object.
Construct(r) ==
    /\ req[r].pc = "init"
    /\ loads' = loads + 1
    /\ req' = [req EXCEPT ![r] =
           IF artifactOk
           THEN [@ EXCEPT !.pc = "post"]
           ELSE [@ EXCEPT !.pc = "done", !.resp = Crash("ModelLoadError")]]
    /\ UNCHANGED <<artifactOk, legacyNumpy, media, stored, pureVars>>

\* Predict.post up to open(tmp_path, 'wb+'): reject a request without a
\* file, else create or truncate the file named like the upload.
Stage(r) ==
    /\ req[r].pc = "post"
    /\ IF req[r].upload = NoUpload
       THEN /\ req' = [req EXCEPT ![r] =
                   [@ EXCEPT !.pc = "done",
                             !.resp = Response("error", "No audio file provided", 400)]]
            /\ UNCHANGED media
       ELSE /\ media' = [media EXCEPT ![req[r].name] =
                   IF Present(req[r].name)
                   THEN [@ EXCEPT !.data = <<>>, !.origin = "predict"]
                   ELSE [ino |-> r, data |-> <<>>, origin |-> "predict"]]
            /\ req' = [req EXCEPT ![r] =
                   [@ EXCEPT !.pc = "write", !.off = 0, !.ino = media'[req[r].name].ino]]
    /\ UNCHANGED <<artifactOk, legacyNumpy, loads, stored, pureVars>>

\* The bytes of a file after writing chunk c at offset off (a write past the
\* end leaves a hole that reads as zeros).
WriteAt(data, off, c) ==
    [i \in 1..Max(Len(data), off + 1) |->
        IF i = off + 1 THEN c ELSE IF i <= Len(data) THEN data[i] ELSE 0]

\* temp_file.write(chunk) for the next chunk of audio_file.chunks().  The
\* descriptor keeps pointing at the file it opened: once that file has been
\* unlinked the bytes no longer show under the path.
WriteChunk(r) ==
    LET n == req[r].name
        fd == req[r].ino
    IN /\ req[r].pc = "write"
       /\ req[r].off < Len(req[r].upload)
       /\ media' = [media EXCEPT ![n] =
              IF Present(n) /\ @.ino = fd
              THEN [@ EXCEPT !.data = WriteAt(@, req[r].off, req[r].upload[req[r].off + 1])]
              ELSE @]
       /\ req' = [req EXCEPT ![r] = [@ EXCEPT !.off = @ + 1]]
       /\ UNCHANGED <<artifactOk, legacyNumpy, loads, stored, pureVars>>

\* The try block: librosa.load reads tmp_path, then features, forward pass,
\* arg-max and label; any exception becomes the error response.
Extract(r) ==
    LET n == req[r].name
        out == Pipeline(Present(n), media[n].data, legacyNumpy)
    IN /\ req[r].pc = "write"
       /\ req[r].off = Len(req[r].upload)
       /\ req' = [req EXCEPT ![r] =
              [@ EXCEPT !.pc = "finally", !.valid = out.valid,
                        !.features = out.features, !.resp = out.resp]]
       /\ UNCHANGED <<artifactOk, legacyNumpy, loads, media, stored, pureVars>>

\* finally: if os.path.exists(tmp_path)
Exists(r) ==
    /\ req[r].pc = "finally"
    /\ req' = [req EXCEPT ![r] =
           [@ EXCEPT !.pc = IF Present(req[r].name) THEN "remove" ELSE "done"]]
    /\ UNCHANGED <<artifactOk, legacyNumpy, loads, media, stored, pureVars>>

\* Variant: the finally block returns without removing the file.
RemoveNothing(r) ==
    /\ req[r].pc = "remove"
    /\ req' = [req EXCEPT ![r] = [@ EXCEPT !.pc = "done"]]
    /\ UNCHANGED <<artifactOk, legacyNumpy, loads, media, stored, pureVars>>

\* os.remove(tmp_path); the path may be gone since the exists test, and the
\* FileNotFoundError raised in the finally block replaces the response.
Remove(r) ==
    LET n == req[r].name
    IN /\ req[r].pc = "remove"
       /\ media' = [media EXCEPT ![n] = Absent]
       /\ req' = [req EXCEPT ![r] =
              IF Present(n) THEN [@ EXCEPT !.pc = "done"]
              ELSE [@ EXCEPT !.pc = "done", !.resp = Crash("FileNotFoundError")]]
       /\ UNCHANGED <<artifactOk, legacyNumpy, loads, stored, pureVars>>

\* FileView.upload: a valid (non-empty) file is saved in the media folder;
\* the storage picks another name when the name is taken.
upload(n, b) ==
    /\ stored < MaxStored
    /\ b # <<>>
    /\ stored' = stored + 1
    /\ media' = IF Present(n) THEN media
                ELSE [media EXCEPT ![n] =
                         [ino |-> NumRequests + stored + 1, data |-> b, origin |-> "upload"]]
    /\ UNCHANGED <<artifactOk, legacyNumpy, loads, req, pureVars>>

\* One step of a request that has arrived.
Serve(r) ==
    \/ Construct(r)
    \/ Stage(r)
    \/ WriteChunk(r)
    \/ Extract(r)
    \/ Exists(r)
    \/ Remove(r)

Next ==
    \/ \E r \in Requests, n \in Names, b \in Uploads \cup {NoUpload} : Arrive(r, n, b)
    \/ \E r \in Requests : Serve(r)
    \/ \E n \in Names, b \in Uploads : upload(n, b)

Spec == Init /\ [][Next]_vars

\* The same view with the uploads stored beforehand (MEDIA_ROOT holds what
\* FileView.upload left there) and requests whose uploads differ in name and
\* in number of chunks: what the staging and the cleanup depend on.
StagedUploads == {<<>>, <<Header, 2>>, NoUpload}

StoredFile(k) == [ino |-> NumRequests + k, data |-> <<Header, 3>>, origin |-> "upload"]

InitStaging ==
    /\ artifactOk \in BOOLEAN
    /\ legacyNumpy \in BOOLEAN
    /\ loads = 0
    /\ stored \in {0, 1}
    /\ media = [n \in Names |-> IF n = "a.wav" /\ stored = 1 THEN StoredFile(1) ELSE Absent]
    /\ req = [r \in Requests |-> IdleRequest]
    /\ InitPureIdle

NextStaging ==
    \/ \E r \in Requests, n \in Names, b \in StagedUploads : Arrive(r, n, b)
    \/ \E r \in Requests : Serve(r)

SpecStaging == InitStaging /\ [][NextStaging]_vars

\* ------------------------------------------- the pure functions alone
\* Arg-max, label lookup and the response built from them, applied to every
\* score row of the model's width and to class indices in and around the
\* label table.
ScoreRows == [0..(OutputWidth - 1) -> 0..MaxScore]
Indices == (0 - IndexSlack)..(OutputWidth - 1 + IndexSlack)

InitPure ==
    /\ artifactOk = TRUE
    /\ legacyNumpy = TRUE
    /\ loads = 0
    /\ stored = 0
    /\ media = [n \in Names |-> Absent]
    /\ req = [r \in Requests |-> IdleRequest]
    /\ answer = NoResponse
    /\ \/ scores \in ScoreRows /\ index = -1
       \/ scores = <<>> /\ index \in Indices

\* predicted_class = np.argmax(preds, axis=1)[0]
Argmax ==
    /\ scores # <<>>
    /\ index = -1
    /\ index' = argmax(scores)
    /\ UNCHANGED <<viewVars, scores, answer>>

\* The response of Predict.post for the score row.
Predicted ==
    /\ scores # <<>>
    /\ answer = NoResponse
    /\ answer' = Respond(scores)
    /\ UNCHANGED <<viewVars, scores, index>>

\* classtoemotion(index)
Lookup ==
    /\ scores = <<>>
    /\ answer = NoResponse
    /\ answer' = Response("label", classtoemotion(index), 0)
    /\ UNCHANGED <<viewVars, scores, index>>

NextPure == Argmax \/ Predicted \/ Lookup

SpecPure == InitPure /\ [][NextPure]_vars

\* ------------------------------------------------------------ claims
Returned(r) == req[r].pc = "done"
\* r has opened its staging file and has not returned yet.
InFlight(r) == req[r].pc \in {"write", "finally", "remove"}
\* r got as far as staging its upload.
Staged(r) == artifactOk /\ req[r].upload # NoUpload /\ (InFlight(r) \/ Returned(r))
\* r has left the try block.
Tried(r) == Staged(r) /\ req[r].pc # "write"

\* The process-wide model state the requests have produced so far.
ModelState ==
    IF loads = 0 THEN "Unloaded" ELSE IF artifactOk THEN "Ready" ELSE "Failed"

\* The response r gets when it is the only request and MEDIA_ROOT is empty.
Alone(r) ==
    IF ~artifactOk THEN Crash("ModelLoadError")
    ELSE IF req[r].upload = NoUpload THEN Response("error", "No audio file provided", 400)
    ELSE Pipeline(TRUE, req[r].upload, legacyNumpy).resp

\* C1: when two or more requests arrive while the model is Unloaded, the load
\* of the artifact is executed exactly once, however they interleave.
C1_LoadOnceOnConcurrentFirstUse ==
    LET firsts == {r \in Requests : req[r].first}
    IN (Cardinality(firsts) >= 2 /\ \A r \in firsts : req[r].pc # "init") => loads = 1

\* C2: Ready and Failed are terminal: once one is reached no step executes the
\* load again (Loading is entered at most once over any sequence of requests).
C2_NoLoadAfterTerminal ==
    [][(ModelState \in {"Ready", "Failed"}) => (loads' = loads)]_vars

\* C3: every request that has returned carries the response it would produce
\* for its own bytes if it ran alone, in every interleaving, also when two
\* uploads have the same file name.
C3_ResponseAsIfAlone ==
    \A r \in Requests : Returned(r) => req[r].resp = Alone(r)

\* C4: a request whose decoding, feature extraction or forward pass failed
\* returns an error response (never a prediction or a crash), and a valid
\* request that arrives after such a failure gets a prediction.
C4_FailuresAreRequestScoped ==
    \A r \in Requests :
        /\ (Returned(r) /\ Staged(r) /\ req[r].features = <<>>)
               => req[r].resp.kind = "error"
        /\ (Returned(r) /\ artifactOk /\ req[r].afterFailure
                /\ req[r].upload # NoUpload /\ Decode(req[r].upload).ok
                /\ Decode(req[r].upload).samples # <<>>)
               => req[r].resp.kind = "prediction"

\* C5: classtoemotion maps 0..7 to neutral, calm, happy, sad, angry, fearful,
\* disgust, surprised in this order and every other integer to unknown.
C5_LabelTable ==
    (scores = <<>> /\ answer # NoResponse) =>
        answer.value =
            CASE index = 0 -> "neutral"
              [] index = 1 -> "calm"
              [] index = 2 -> "happy"
              [] index = 3 -> "sad"
              [] index = 4 -> "angry"
              [] index = 5 -> "fearful"
              [] index = 6 -> "disgust"
              [] index = 7 -> "surprised"
              [] OTHER -> "unknown"

C5_Witness ==
    /\ scores = <<>>
    /\ index = OutputWidth
    /\ answer.kind = "label"
    /\ answer.value = "unknown"

\* C6: for every score row of width 8 the prediction returned is one of the
\* eight labels, never unknown.
C6_PredictionIsALabel ==
    (scores # <<>> /\ answer # NoResponse) =>
        /\ answer.kind = "prediction"
        /\ answer.value \in {"neutral", "calm", "happy", "sad", "angry",
                             "fearful", "disgust", "surprised"}

C6_Witness ==
    /\ scores # <<>>
    /\ scores[OutputWidth - 1] > scores[0]
    /\ answer.kind = "prediction"
    /\ answer.value = "surprised"

\* C7: for a validly decoded input the features handed to the forward pass
\* have shape (1, 40, 1), and the two expansions raise no error.
C7_FeaturesShape ==
    \A r \in Requests :
        (Tried(r) /\ req[r].valid) => req[r].features = <<1, N_MFCC, 1>>

\* C8: the class chosen for a score row is the lowest index that holds the
\* maximum score.
C8_ArgmaxLowestIndex ==
    (scores # <<>> /\ index # -1) =>
        /\ index \in DOMAIN scores
        /\ \A j \in DOMAIN scores :
               /\ scores[j] <= scores[index]
               /\ j < index => scores[j] < scores[index]

C8_Witness ==
    /\ scores # <<>>
    /\ index > 0
    /\ \E j \in DOMAIN scores : j > index /\ scores[j] = scores[index]

\* C9: a request that staged its upload has removed the file when it returns,
\* on the success path and on the error path: unless another request still has
\* the same path staged, no staged file is left under the name.
C9_StagedFileRemoved ==
    \A r \in Requests :
        (Returned(r) /\ Staged(r)
            /\ ~\E q \in Requests : InFlight(q) /\ req[q].name = req[r].name)
        => media[req[r].name].origin # "predict"

C9_Witness ==
    /\ \A r \in Requests : Returned(r) /\ Staged(r) /\ req[r].name = "a.wav"
    /\ \E r \in Requests : req[r].resp.kind = "prediction"
    /\ \E r \in Requests : req[r].resp.kind = "error"
    /\ \A n \in Names : media[n].origin # "predict"

\* C10: no step changes a stored upload: a file saved through the upload view
\* keeps existing with the same contents.
C10_StoredUploadsUnchanged ==
    [][\A n \in Names : (media[n].origin = "upload") => (media'[n] = media[n])]_vars
====
